---- MODULE Spec2Model ----
(***************************************************************************)
(* Client-side session and authenticated-request pipeline of the trading   *)
(* app frontend: AuthProvider (contexts/AuthContext: initAuth, login,      *)
(* logout, refreshAccessToken, the global axios response interceptor, the  *)
(* default-header effect), the api client (services/api: request and       *)
(* response interceptors) and the route guards (ProtectedRoute,            *)
(* AuthLayout).                                                            *)
(*                                                                         *)
(* JavaScript is single threaded: the code that runs between two network   *)
(* awaits is one atomic step.  A step is therefore: a user action or an    *)
(* effect up to its first await, or the arrival of one HTTP response with  *)
(* everything the promise chain does until each branch awaits the network  *)
(* again.  The awaiting code of a request is kept as a stack of frames     *)
(* (r.k); the head is the innermost awaiter.                               *)
(*                                                                         *)
(* Access tokens are numbered in the order the server issues them; the     *)
(* claims of token t carry sub = t, so the user shown by the session names *)
(* the token it was decoded from.                                          *)
(***************************************************************************)
EXTENDS Integers, Sequences, FiniteSets, TLC

\* Bounds of the model.
MaxReq == 5      \* HTTP requests sent in one behaviour
MaxCalls == 2    \* domain calls issued through the api client
MaxLogins == 1   \* login forms submitted
MaxRegisters == 1  \* register forms submitted

\* localStorage.getItem(...) === null, or no Authorization header.
Absent == 0
\* A stored string that jwt_decode cannot decode.
Malformed == -1

VARIABLES
  store,            \* localStorage: [at |-> accessToken, rt |-> refreshToken]
  storageAvailable, \* localStorage can be read and written in this browser
  user,             \* useState(null): 0 is null, else the sub claim
  isAuthenticated,  \* useState(false)
  loading,          \* useState(true)
  error,            \* useState(null): "null" or the message
  defaultAuth,      \* axios.defaults.headers.common['Authorization']
  effAuth,          \* isAuthenticated as seen by the last run of the header effect
  registered,       \* the global axios response interceptor is installed
  mounted,          \* AuthProvider's mount effects have run
  nav,              \* window.location.href = '/login' assigned, document not yet unloaded
  reqs,             \* HTTP requests in flight
  calls,            \* domain calls issued by pages through the api client
  nsent,            \* number of requests sent so far
  nlogin,           \* number of login forms submitted so far
  nregister,        \* number of register forms submitted so far
  returned,         \* what login / register / logout last handed to their callers
  ended,            \* the api client gave the session up; no login succeeded since
  expired,          \* server/clock: access tokens whose exp has passed
  validRT,          \* server: refresh tokens it still accepts
  nextTok,          \* server: next token number to issue
  superseded        \* access tokens replaced in the store by a successful renewal

vars == <<store, storageAvailable, user, isAuthenticated, loading, error, defaultAuth, effAuth,
          registered, mounted, nav, reqs, calls, nsent, nlogin, nregister,
          returned, ended, expired, validRT, nextTok, superseded>>

CallIds == 1..MaxCalls

NoStore == [at |-> Absent, rt |-> Absent]

\* A response, an error or a return value travelling up the promise chain.
\* kind: "ok" | "e401" | "err" (response / 401 / any other failure) of the
\* request to endpoint ep; "true" | "false" | "undef" for function results.
Val(kind, ep, at, rt) == [kind |-> kind, ep |-> ep, at |-> at, rt |-> rt]
Ret(kind) == Val(kind, "none", Absent, Absent)

IdleCall == [st |-> "idle", from |-> "none", renew |-> "none",
             nrenew |-> 0, nreplay |-> 0, cohort |-> {}]

\* Nothing has been returned yet: "none"; a call that awaits: "pending";
\* else "true" | "false" (login, register), "undef" (logout resolved) or the
\* kind of the error thrown.  nlogout counts the logout() calls that ended.
NoReturn == [login |-> "none", register |-> "none", logout |-> "none",
             nlogout |-> 0]

\* The part of the state a handler reads and writes, as one record.
Client == [store |-> store, user |-> user, isAuthenticated |-> isAuthenticated,
           loading |-> loading, error |-> error, nav |-> nav,
           reqs |-> reqs, calls |-> calls, nsent |-> nsent,
           returned |-> returned, ended |-> ended,
           superseded |-> superseded, over |-> FALSE]

Commit(t) ==
  /\ ~t.over
  /\ store' = t.store
  /\ user' = t.user
  /\ isAuthenticated' = t.isAuthenticated
  /\ loading' = t.loading
  /\ error' = t.error
  /\ nav' = t.nav
  /\ reqs' = t.reqs
  /\ calls' = t.calls
  /\ nsent' = t.nsent
  /\ returned' = t.returned
  /\ ended' = t.ended
  /\ superseded' = t.superseded

(***************************************************************************)
(* Requests                                                                *)
(***************************************************************************)

\* An axios request config together with its awaiting code.
\*   tok   the Authorization header it is dispatched with
\*   body  refresh_token of a refresh request
\*   retry config._retry
\*   icpt  the global response interceptor was installed when the request
\*         was made (axios builds the handler chain inside request())
\*   tries how many times an interceptor started a renewal for this config
\*   stale dispatched with a token that a completed renewal had replaced
\*   early in flight for a logout() when a later login was accepted
Req(client, ep, tok, body, icpt, k) ==
  [id |-> 0, client |-> client, ep |-> ep, tok |-> tok, body |-> body,
   retry |-> FALSE, icpt |-> icpt, k |-> k, tries |-> 0, stale |-> FALSE,
   early |-> FALSE]

\* A logout() call awaits the answer to request r.
AwaitedByLogout(r) == \E n \in 1..Len(r.k) : r.k[n].f = "logout"

\* A login has been accepted: the requests a logout() awaits are from before.
MarkEarly(rs) ==
  {IF AwaitedByLogout(r) THEN [r EXCEPT !.early = TRUE] ELSE r : r \in rs}

\* Dispatch: the request is on the wire.  id tells apart requests in flight
\* that are otherwise equal.  No request is sent beyond MaxReq.
Send(s, r) ==
  IF s.nsent >= MaxReq
  THEN [s EXCEPT !.over = TRUE]
  ELSE LET q == [r EXCEPT !.stale = r.tok \in s.superseded]
           free == {n \in 1..MaxReq : [q EXCEPT !.id = n] \notin s.reqs}
           id == CHOOSE n \in free : \A m \in free : n <= m
       IN [s EXCEPT !.nsent = @ + 1,
                    !.reqs = @ \cup {[q EXCEPT !.id = id]}]

\* api.interceptors.request.use: the stored access token, read at dispatch,
\* replaces whatever header the config carries.
apiRequestInterceptor(s, hdr) ==
  IF s.store.at # Absent THEN s.store.at ELSE hdr

\* axios.post(url, data) on the global instance: default headers apply.
axiosPost(s, ep, body, k) ==
  Send(s, Req("axios", ep, defaultAuth, body, registered, k))

\* jwt_decode: throws unless the token is well formed; sub names the token.
jwt_decode(t) == [ok |-> t > 0, sub |-> t]

\* decoded.exp < Date.now() / 1000
TokenExpired(t) == t \in expired

\* A successful renewal replaced the stored access token old by new.
Renewed(s, old, new) ==
  [s EXCEPT !.superseded = IF old > 0 /\ old # new THEN @ \cup {old} ELSE @]

(***************************************************************************)
(* AuthProvider                                                            *)
(***************************************************************************)

RECURSIVE Resume(_, _, _)

\* logout(), up to its await: the POST is sent, the finally block is the
\* "logout" frame.  k is what awaits logout (empty when it is not awaited).
logout(s, k) ==
  axiosPost([s EXCEPT !.returned.logout = "pending"],
            "logout", Absent, <<[f |-> "logout"]>> \o k)

\* refreshAccessToken(), up to its await.  Without a stored refresh token,
\* or when localStorage.getItem throws, control is in its catch block:
\* logout() is started, not awaited, and false is returned to k.
refreshAccessToken(s, k) ==
  IF ~storageAvailable \/ s.store.rt = Absent
  THEN LET s1 == logout(s, <<>>) IN Resume(s1, k, Ret("false"))
  ELSE axiosPost(s, "refresh", s.store.rt, <<[f |-> "rat"]>> \o k)

\* Mutant of refreshAccessTokenCont: the claims of the new token are used
\* whether or not it decodes.
refreshAccessTokenContNoDecodeCheck(s, rest, v) ==
  IF v.kind = "ok" /\ storageAvailable
  THEN LET s1 == [s EXCEPT !.store.at = v.at]
           decoded == jwt_decode(v.at)
           s2 == [Renewed(s1, s.store.at, v.at)
                    EXCEPT !.user = decoded.sub,
                           !.isAuthenticated = TRUE]
       IN Resume(s2, rest, Ret("true"))
  ELSE Resume(logout(s, <<>>), rest, Ret("false"))

\* refreshAccessToken() after its await, v the outcome of the POST.
refreshAccessTokenCont(s, rest, v) ==
  IF v.kind = "ok" /\ storageAvailable
  THEN LET s1 == [s EXCEPT !.store.at = v.at]
           decoded == jwt_decode(v.at)
       IN IF decoded.ok
          THEN LET s2 == [Renewed(s1, s.store.at, v.at)
                            EXCEPT !.user = decoded.sub,
                                   !.isAuthenticated = TRUE]
               IN Resume(s2, rest, Ret("true"))
          ELSE Resume(logout(s1, <<>>), rest, Ret("false"))
  ELSE Resume(logout(s, <<>>), rest, Ret("false"))

\* Mutant of logoutFinally: the session state is not reset.
logoutFinallyKeepsSession(s) ==
  IF storageAvailable
  THEN [s EXCEPT !.store = NoStore,
                 !.returned.logout = "undef", !.returned.nlogout = @ + 1]
  ELSE [s EXCEPT !.returned.logout = "err", !.returned.nlogout = @ + 1]

\* logout() after its await: the catch block swallows the error, the
\* finally block clears, the promise resolves with undefined.  When
\* localStorage.removeItem throws, the finally block stops there and the
\* promise rejects.
logoutFinally(s) ==
  IF storageAvailable
  THEN [s EXCEPT !.store = NoStore, !.user = 0, !.isAuthenticated = FALSE,
                 !.returned.logout = "undef", !.returned.nlogout = @ + 1]
  ELSE [s EXCEPT !.returned.logout = "err", !.returned.nlogout = @ + 1]

\* err.response?.data?.error || fallback: the server's reason when the
\* error carries a response, else the fallback text.
ErrorMessage(v, fallback) ==
  IF v.kind \in {"e401", "e400"} THEN "server" ELSE fallback

\* Mutant of loginCont: the refresh token of the response is not persisted.
loginContDropsRefreshToken(s, v) ==
  IF v.kind = "ok" /\ ~storageAvailable
  THEN [s EXCEPT !.error = "Login failed",
                 !.loading = FALSE,
                 !.returned.login = "false"]
  ELSE IF v.kind = "ok"
  THEN [s EXCEPT !.store.at = v.at,
                 !.user = v.at,
                 !.isAuthenticated = TRUE,
                 !.loading = FALSE,
                 !.ended = FALSE,
                 !.reqs = MarkEarly(@),
                 !.returned.login = "true"]
  ELSE [s EXCEPT !.error = ErrorMessage(v, "Login failed"),
                 !.loading = FALSE,
                 !.returned.login = "false"]

\* login() after its await.  The user record of the response is the one of
\* the access token issued with it.  When localStorage.setItem throws, the
\* catch block handles an error that carries no response.
loginCont(s, v) ==
  IF v.kind = "ok" /\ ~storageAvailable
  THEN [s EXCEPT !.error = "Login failed",
                 !.loading = FALSE,
                 !.returned.login = "false"]
  ELSE IF v.kind = "ok"
  THEN [s EXCEPT !.store = [at |-> v.at, rt |-> v.rt],
                 !.user = v.at,
                 !.isAuthenticated = TRUE,
                 !.loading = FALSE,
                 !.ended = FALSE,
                 !.reqs = MarkEarly(@),
                 !.returned.login = "true"]
  ELSE [s EXCEPT !.error = ErrorMessage(v, "Login failed"),
                 !.loading = FALSE,
                 !.returned.login = "false"]

\* Mutant of registerCont: a successful registration signs the user in.
registerContSignsIn(s, v) ==
  IF v.kind = "ok"
  THEN [s EXCEPT !.loading = FALSE, !.isAuthenticated = TRUE,
                 !.returned.register = "true"]
  ELSE [s EXCEPT !.error = ErrorMessage(v, "Registration failed"),
                 !.loading = FALSE,
                 !.returned.register = "false"]

\* register() after its await.
registerCont(s, v) ==
  IF v.kind = "ok"
  THEN [s EXCEPT !.loading = FALSE, !.returned.register = "true"]
  ELSE [s EXCEPT !.error = ErrorMessage(v, "Registration failed"),
                 !.loading = FALSE,
                 !.returned.register = "false"]

\* Mutant of initAuthCont: loading ends only when the renewal succeeded.
initAuthContOnSuccess(s, v) ==
  IF v.kind = "true" THEN [s EXCEPT !.loading = FALSE] ELSE s

\* initAuth() after await refreshAccessToken(): whatever it returned, the
\* finally block ends loading.
initAuthCont(s, v) == [s EXCEPT !.loading = FALSE]

\* The global axios response interceptor after await refreshAccessToken().
axiosInterceptorCont(s, fr, rest, v) ==
  IF v.kind = "true"
  THEN Send(s, [fr.req EXCEPT !.tok = s.store.at, !.k = rest])
  ELSE Resume(s, rest, fr.err)

(***************************************************************************)
(* api client                                                              *)
(***************************************************************************)

CallOf(k) == k[Len(k)].i

\* Mutant of apiInterceptorCont: the replay keeps the header it was first
\* sent with.
apiInterceptorContOldHeader(s, fr, rest, v) ==
  LET i == CallOf(rest) IN
  IF v.kind = "ok"
  THEN LET s1 == [Renewed(s, s.store.at, v.at)
                    EXCEPT !.store.at = v.at,
                           !.calls[i].renew = "ok",
                           !.calls[i].nreplay = @ + 1]
       IN Send(s1, [fr.req EXCEPT !.k = rest])
  ELSE LET s1 == [s EXCEPT !.store = NoStore, !.nav = TRUE, !.ended = TRUE,
                           !.calls[i].renew = "failed"]
       IN Resume(s1, rest, v)

\* Mutant of apiInterceptorCont: the renewal also overwrites the stored
\* refresh token.
apiInterceptorContRotatesPair(s, fr, rest, v) ==
  LET i == CallOf(rest) IN
  IF v.kind = "ok"
  THEN LET s1 == [Renewed(s, s.store.at, v.at)
                    EXCEPT !.store = [at |-> v.at, rt |-> v.at],
                           !.calls[i].renew = "ok",
                           !.calls[i].nreplay = @ + 1]
       IN Send(s1, [fr.req EXCEPT !.tok = apiRequestInterceptor(s1, v.at),
                                  !.k = rest])
  ELSE LET s1 == [s EXCEPT !.store = NoStore, !.nav = TRUE, !.ended = TRUE,
                           !.calls[i].renew = "failed"]
       IN Resume(s1, rest, v)

\* The api response interceptor after await axios.post('/api/auth/refresh').
apiInterceptorCont(s, fr, rest, v) ==
  LET i == CallOf(rest) IN
  IF v.kind = "ok"
  THEN LET s1 == [Renewed(s, s.store.at, v.at)
                    EXCEPT !.store.at = v.at,
                           !.calls[i].renew = "ok",
                           !.calls[i].nreplay = @ + 1]
       IN Send(s1, [fr.req EXCEPT !.tok = apiRequestInterceptor(s1, v.at),
                                  !.k = rest])
  ELSE LET s1 == [s EXCEPT !.store = NoStore, !.nav = TRUE, !.ended = TRUE,
                           !.calls[i].renew = "failed"]
       IN Resume(s1, rest, v)

\* The caller of a domain call receives v.
callCont(s, i, v) ==
  [s EXCEPT !.calls[i].st = v.kind, !.calls[i].from = v.ep]

(***************************************************************************)
(* Promise chain                                                           *)
(***************************************************************************)

\* Deliver v to the awaiting code k and run it until it awaits again.
Resume(s, k, v) ==
  IF k = <<>> THEN s
  ELSE LET fr == Head(k)
           rest == Tail(k)
       IN CASE fr.f = "rat" -> refreshAccessTokenCont(s, rest, v)
            [] fr.f = "axi" -> axiosInterceptorCont(s, fr, rest, v)
            [] fr.f = "api" -> apiInterceptorCont(s, fr, rest, v)
            [] fr.f = "logout" -> Resume(logoutFinally(s), rest, Ret("undef"))
            [] fr.f = "login" -> loginCont(s, v)
            [] fr.f = "register" -> registerCont(s, v)
            [] fr.f = "init" -> initAuthCont(s, v)
            [] fr.f = "call" -> callCont(s, fr.i, v)

\* axios.interceptors.response.use(response => response, async error => ...)
axiosResponseInterceptor(s, r, v) ==
  IF v.kind = "e401" /\ ~r.retry
  THEN LET r1 == [r EXCEPT !.retry = TRUE, !.tries = @ + 1, !.k = <<>>]
       IN refreshAccessToken(s, <<[f |-> "axi", req |-> r1, err |-> v]>> \o r.k)
  ELSE Resume(s, r.k, v)

\* Mutant of apiResponseInterceptor: originalRequest._retry is not consulted.
apiResponseInterceptorNoRetryCheck(s, r, v) ==
  IF v.kind = "e401"
  THEN LET r1 == [r EXCEPT !.retry = TRUE, !.tries = @ + 1, !.k = <<>>]
           i == CallOf(r.k)
       IN IF s.store.rt = Absent
          THEN Resume([s EXCEPT !.nav = TRUE, !.ended = TRUE], r.k, v)
          ELSE LET s1 == [s EXCEPT
                            !.calls[i].renew = "pending",
                            !.calls[i].nrenew = @ + 1,
                            !.calls[i].cohort =
                               {j \in CallIds : s.calls[j].renew = "pending"}]
               IN axiosPost(s1, "refresh", s.store.rt,
                            <<[f |-> "api", req |-> r1]>> \o r.k)
  ELSE Resume(s, r.k, v)

\* Mutant of apiResponseInterceptor: every failure starts a renewal.
apiResponseInterceptorAnyFailure(s, r, v) ==
  IF v.kind # "ok" /\ ~r.retry
  THEN LET r1 == [r EXCEPT !.retry = TRUE, !.tries = @ + 1, !.k = <<>>]
           i == CallOf(r.k)
       IN IF s.store.rt = Absent
          THEN Resume([s EXCEPT !.nav = TRUE, !.ended = TRUE], r.k, v)
          ELSE LET s1 == [s EXCEPT
                            !.calls[i].renew = "pending",
                            !.calls[i].nrenew = @ + 1,
                            !.calls[i].cohort =
                               {j \in CallIds : s.calls[j].renew = "pending"}]
               IN axiosPost(s1, "refresh", s.store.rt,
                            <<[f |-> "api", req |-> r1]>> \o r.k)
  ELSE Resume(s, r.k, v)

\* Mutant of apiResponseInterceptor: the renewal is requested whether or not
\* a refresh token is stored.
apiResponseInterceptorNoTokenCheck(s, r, v) ==
  IF v.kind = "e401" /\ ~r.retry
  THEN LET r1 == [r EXCEPT !.retry = TRUE, !.tries = @ + 1, !.k = <<>>]
           i == CallOf(r.k)
           s1 == [s EXCEPT
                    !.calls[i].renew = "pending",
                    !.calls[i].nrenew = @ + 1,
                    !.calls[i].cohort =
                       {j \in CallIds : s.calls[j].renew = "pending"}]
       IN axiosPost(s1, "refresh", s.store.rt,
                    <<[f |-> "api", req |-> r1]>> \o r.k)
  ELSE Resume(s, r.k, v)

\* api.interceptors.response.use((response) => response, async (error) => ...)
apiResponseInterceptor(s, r, v) ==
  IF v.kind = "e401" /\ ~r.retry
  THEN LET r1 == [r EXCEPT !.retry = TRUE, !.tries = @ + 1, !.k = <<>>]
           i == CallOf(r.k)
       IN IF s.store.rt = Absent
          THEN Resume([s EXCEPT !.nav = TRUE, !.ended = TRUE], r.k, v)
          ELSE LET s1 == [s EXCEPT
                            !.calls[i].renew = "pending",
                            !.calls[i].nrenew = @ + 1,
                            !.calls[i].cohort =
                               {j \in CallIds : s.calls[j].renew = "pending"}]
               IN axiosPost(s1, "refresh", s.store.rt,
                            <<[f |-> "api", req |-> r1]>> \o r.k)
  ELSE Resume(s, r.k, v)

\* The response (or error) v of request r reaches the client.
Deliver(s, r, v) ==
  LET s0 == [s EXCEPT !.reqs = @ \ {r}] IN
  IF r.client = "api" THEN apiResponseInterceptor(s0, r, v)
  ELSE IF r.icpt THEN axiosResponseInterceptor(s0, r, v)
  ELSE Resume(s0, r.k, v)

(***************************************************************************)
(* Route guards                                                            *)
(***************************************************************************)

\* ProtectedRoute: where a protected location renders.
ProtectedRoute == IF ~isAuthenticated THEN "/login" ELSE "/"

\* AuthLayout: where /login (and /register) renders.
AuthLayout == IF isAuthenticated THEN "/" ELSE "/login"

(***************************************************************************)
(* Server                                                                  *)
(***************************************************************************)

\* The server accepts access token t on a protected endpoint.
TokenValid(t) == t > 0 /\ t \notin expired

\* What the server (or the network) may answer to request r: "ok", a 401
\* response, and "err", any other failure.  Where the client reads the body
\* of a failure (login, register) or hands it to a page (domain calls),
\* "e400" is a failure response other than 401 and "err" a failure without
\* response.  "garbled" is a successful answer to a refresh request whose
\* access_token cannot be decoded.
Outcomes(r) ==
  CASE r.ep = "refresh" ->
         IF r.body \in validRT THEN {"ok", "garbled", "err"}
         ELSE {"e401", "err"}
    [] r.ep = "login" -> {"ok", "e401", "e400", "err"}
    [] r.ep = "register" -> {"ok", "e400", "err"}
    [] r.ep = "domain" ->
         IF TokenValid(r.tok) THEN {"ok", "e400", "err"}
         ELSE {"e401", "e400", "err"}
    [] OTHER ->
         IF TokenValid(r.tok) THEN {"ok", "err"} ELSE {"e401", "err"}

\* The body of the answer: a refresh issues an access token, a login a pair.
Answer(r, kind) ==
  IF kind = "garbled" THEN Val("ok", r.ep, Malformed, Absent)
  ELSE IF kind = "ok" /\ r.ep = "refresh" THEN Val(kind, r.ep, nextTok, Absent)
  ELSE IF kind = "ok" /\ r.ep = "login" THEN Val(kind, r.ep, nextTok, nextTok)
  ELSE Val(kind, r.ep, Absent, Absent)

(***************************************************************************)
(* Actions                                                                 *)
(***************************************************************************)

\* Mutant of initAuth: the user of the stored token is set before its expiry
\* is looked at.
initAuthOptimistic(s) ==
  IF ~storageAvailable
  THEN [logout(s, <<>>) EXCEPT !.loading = FALSE]
  ELSE IF s.store.at = Absent \/ s.store.rt = Absent
  THEN [s EXCEPT !.loading = FALSE]
  ELSE LET decoded == jwt_decode(s.store.at) IN
       IF ~decoded.ok
       THEN [logout(s, <<>>) EXCEPT !.loading = FALSE]
       ELSE LET s1 == [s EXCEPT !.user = decoded.sub, !.isAuthenticated = TRUE]
            IN IF TokenExpired(s.store.at)
               THEN refreshAccessToken(s1, <<[f |-> "init", accessToken |-> s.store.at]>>)
               ELSE [s1 EXCEPT !.loading = FALSE]

\* Mutant of initAuth: the refresh token is not looked at before the access
\* token is decoded.
initAuthNeedsAccessTokenOnly(s) ==
  IF ~storageAvailable
  THEN [logout(s, <<>>) EXCEPT !.loading = FALSE]
  ELSE IF s.store.at = Absent
  THEN [s EXCEPT !.loading = FALSE]
  ELSE LET decoded == jwt_decode(s.store.at) IN
       IF ~decoded.ok
       THEN [logout(s, <<>>) EXCEPT !.loading = FALSE]
       ELSE IF TokenExpired(s.store.at)
       THEN refreshAccessToken(s, <<[f |-> "init", accessToken |-> s.store.at]>>)
       ELSE [s EXCEPT !.user = decoded.sub,
                      !.isAuthenticated = TRUE,
                      !.loading = FALSE]

\* initAuth(), up to its await.  When localStorage.getItem throws, the catch
\* block starts logout() and the finally block ends loading.
initAuth(s) ==
  IF ~storageAvailable
  THEN [logout(s, <<>>) EXCEPT !.loading = FALSE]
  ELSE IF s.store.at = Absent \/ s.store.rt = Absent
  THEN [s EXCEPT !.loading = FALSE]
  ELSE LET decoded == jwt_decode(s.store.at) IN
       IF ~decoded.ok
       THEN [logout(s, <<>>) EXCEPT !.loading = FALSE]
       ELSE IF TokenExpired(s.store.at)
       THEN refreshAccessToken(s, <<[f |-> "init", accessToken |-> s.store.at]>>)
       ELSE [s EXCEPT !.user = decoded.sub,
                      !.isAuthenticated = TRUE,
                      !.loading = FALSE]

\* login(email, password), up to its await.
login(s) ==
  axiosPost([s EXCEPT !.error = "null", !.loading = TRUE,
                      !.returned.login = "pending"],
            "login", Absent, <<[f |-> "login"]>>)

\* register(name, email, password), up to its await.
register(s) ==
  axiosPost([s EXCEPT !.error = "null", !.loading = TRUE,
                      !.returned.register = "pending"],
            "register", Absent, <<[f |-> "register"]>>)

\* MainLayout's handleLogout: await logout(), then navigate('/login').
handleLogout(s) == logout(s, <<>>)

\* A page calls a service function: api.get(...) / api.post(...).
apiCall(s, i) ==
  Send([s EXCEPT !.calls[i].st = "pending"],
       Req("api", "domain", apiRequestInterceptor(s, Absent), Absent, FALSE,
           <<[f |-> "call", i |-> i]>>))

\* AuthProvider mounts: its three effects run in order in one flush.  The
\* requests initAuth makes precede the installation of the interceptor; the
\* header effect sees the isAuthenticated of the first render (false).
Mount ==
  /\ ~mounted
  /\ Commit(initAuth(Client))
  /\ mounted' = TRUE
  /\ registered' = TRUE
  /\ effAuth' = FALSE
  /\ defaultAuth' = Absent
  /\ UNCHANGED <<storageAvailable, nlogin, nregister, expired, validRT, nextTok>>

\* useEffect(..., [isAuthenticated]): runs when isAuthenticated has changed.
HeaderEffect ==
  /\ mounted
  /\ isAuthenticated # effAuth
  /\ effAuth' = isAuthenticated
  /\ defaultAuth' = IF isAuthenticated THEN store.at ELSE Absent
  /\ UNCHANGED <<storageAvailable, store, user, isAuthenticated, loading, error, registered,
                 mounted, nav, reqs, calls, nsent, nlogin, nregister,
                 returned, ended, expired, validRT, nextTok, superseded>>

\* The user submits the login form (rendered inside AuthLayout).  The page
\* the user acts on is a committed render, whose effects have run.
UserLogin ==
  /\ mounted
  /\ AuthLayout = "/login"
  /\ effAuth = isAuthenticated
  /\ nlogin < MaxLogins
  /\ nlogin' = nlogin + 1
  /\ Commit(login(Client))
  /\ UNCHANGED <<storageAvailable, defaultAuth, effAuth, registered, mounted, nregister,
                 expired, validRT, nextTok>>

\* The user submits the register form (rendered inside AuthLayout).
UserRegister ==
  /\ mounted
  /\ AuthLayout = "/login"
  /\ effAuth = isAuthenticated
  /\ nregister < MaxRegisters
  /\ nregister' = nregister + 1
  /\ Commit(register(Client))
  /\ UNCHANGED <<storageAvailable, defaultAuth, effAuth, registered, mounted, nlogin, expired,
                 validRT, nextTok>>

\* The user picks Logout in MainLayout (rendered inside ProtectedRoute).
UserLogout ==
  /\ mounted
  /\ ProtectedRoute = "/"
  /\ effAuth = isAuthenticated
  /\ Commit(handleLogout(Client))
  /\ UNCHANGED <<storageAvailable, defaultAuth, effAuth, registered, mounted, nlogin,
                 nregister, expired, validRT, nextTok>>

\* Domain call i is issued by a page, which renders inside ProtectedRoute;
\* calls are numbered in the order of issue.
DomainCall(i) ==
  /\ mounted
  /\ ProtectedRoute = "/"
  /\ calls[i].st = "idle"
  /\ IF i = 1 THEN TRUE ELSE calls[i - 1].st # "idle"
  /\ Commit(apiCall(Client, i))
  /\ UNCHANGED <<storageAvailable, defaultAuth, effAuth, registered, mounted, nlogin,
                 nregister, expired, validRT, nextTok>>

\* The server answers request r and the client handles the answer.
Respond(r, kind) ==
  /\ r \in reqs
  /\ kind \in Outcomes(r)
  /\ Commit(Deliver(Client, r, Answer(r, kind)))
  /\ nextTok' = IF kind = "ok" /\ r.ep \in {"refresh", "login"}
                THEN nextTok + 1 ELSE nextTok
  /\ validRT' = IF kind = "ok" /\ r.ep = "login"
                THEN validRT \cup {nextTok} ELSE validRT
  /\ UNCHANGED <<storageAvailable, defaultAuth, effAuth, registered, mounted, nlogin,
                 nregister, expired>>

\* Access tokens whose expiry is about to be judged: by the server, on a
\* request in flight to a protected endpoint, or by initAuth.
TokensInUse ==
  {r.tok : r \in {q \in reqs : q.ep \in {"domain", "logout"}}}
    \cup (IF mounted THEN {} ELSE {store.at})

\* Refresh tokens the server is about to judge.
RefreshInUse == {r.body : r \in {q \in reqs : q.ep = "refresh"}}

\* Time passes: the exp of access token t is reached.
Expire(t) ==
  /\ t > 0
  /\ t \in TokensInUse \ expired
  /\ expired' = expired \cup {t}
  /\ UNCHANGED <<storageAvailable, store, user, isAuthenticated, loading, error, defaultAuth,
                 effAuth, registered, mounted, nav, reqs, calls, nsent,
                 nlogin, nregister, returned, ended, validRT, nextTok,
                 superseded>>

\* The server revokes (or lets expire) refresh token t.
Revoke(t) ==
  /\ t \in validRT \cap RefreshInUse
  /\ validRT' = validRT \ {t}
  /\ UNCHANGED <<storageAvailable, store, user, isAuthenticated, loading, error, defaultAuth,
                 effAuth, registered, mounted, nav, reqs, calls, nsent,
                 nlogin, nregister, returned, ended, expired, nextTok,
                 superseded>>

\* window.location.href = '/login' takes effect: the document is replaced,
\* in-memory state and requests in flight are gone, localStorage stays.
PageLoad ==
  /\ nav
  /\ nav' = FALSE
  /\ user' = 0
  /\ isAuthenticated' = FALSE
  /\ loading' = TRUE
  /\ error' = "null"
  /\ defaultAuth' = Absent
  /\ effAuth' = FALSE
  /\ registered' = FALSE
  /\ mounted' = FALSE
  /\ reqs' = {}
  /\ calls' = [i \in CallIds |->
                 IF calls[i].st = "pending"
                 THEN [calls[i] EXCEPT !.st = "aborted"] ELSE calls[i]]
  /\ returned' = NoReturn
  /\ UNCHANGED <<storageAvailable, store, nsent, nlogin, nregister, ended, expired, validRT,
                 nextTok, superseded>>

\* The state a document starts in: whatever an earlier process left in
\* localStorage (nothing, a malformed string, or token 1 with refresh token 1).
\* Where localStorage is unavailable, it holds nothing the code can reach.
Init ==
  /\ storageAvailable \in BOOLEAN
  /\ store \in [at : {Absent, Malformed, 1}, rt : {Absent, 1}]
  /\ ~storageAvailable => store = NoStore
  /\ expired \in SUBSET ({store.at} \cap {1})
  /\ validRT \in SUBSET ({store.rt} \cap {1})
  /\ nextTok = 2
  /\ user = 0
  /\ isAuthenticated = FALSE
  /\ loading = TRUE
  /\ error = "null"
  /\ defaultAuth = Absent
  /\ effAuth = FALSE
  /\ registered = FALSE
  /\ mounted = FALSE
  /\ nav = FALSE
  /\ reqs = {}
  /\ calls = [i \in CallIds |-> IdleCall]
  /\ nsent = 0
  /\ nlogin = 0
  /\ nregister = 0
  /\ returned = NoReturn
  /\ ended = FALSE
  /\ superseded = {}

PageCall == \E i \in CallIds : DomainCall(i)

Kinds == {"ok", "e401", "e400", "err"}

Response == \E r \in reqs : \E kind \in Kinds \cup {"garbled"} : Respond(r, kind)

Expiry == \E t \in TokensInUse : Expire(t)

Revocation == \E t \in validRT : Revoke(t)

Next ==
  \/ Mount
  \/ HeaderEffect
  \/ UserLogin
  \/ UserRegister
  \/ UserLogout
  \/ PageCall
  \/ Response
  \/ Expiry
  \/ Revocation
  \/ PageLoad

Spec == Init /\ [][Next]_vars

\* The server answers every request, effects and navigations take place;
\* nothing is assumed of the user, of time or of revocation.
FairSpec ==
  /\ Spec
  /\ WF_vars(Mount)
  /\ WF_vars(HeaderEffect)
  /\ WF_vars(PageLoad)
  /\ WF_vars(Response)

\* A document that starts with both tokens stored or neither.
InitPaired == Init /\ (store.at = Absent <=> store.rt = Absent)

SpecPaired == InitPaired /\ [][Next]_vars

(***************************************************************************)
(* Properties                                                              *)
(***************************************************************************)

\* Frames of kind f among the awaiting code of request r.
Frames(r, f) == {r.k[n] : n \in {m \in 1..Len(r.k) : r.k[m].f = f}}

\* Every request config the client holds: in flight, or kept by an
\* interceptor that awaits a renewal for it.
Configs ==
  reqs \cup UNION {{fr.req : fr \in Frames(r, "axi") \cup Frames(r, "api")} : r \in reqs}

RefreshInFlight == {r \in reqs : r.ep = "refresh"}

\* The replay of domain call i is in flight.
ReplayInFlight(i) ==
  \E r \in reqs : r.client = "api" /\ r.retry /\ CallOf(r.k) = i

\* Calls i and j awaited a renewal at the same time.
Concurrent(i, j) == i # j /\ (j \in calls[i].cohort \/ i \in calls[j].cohort)

\* C1: at every moment at most one renewal request is outstanding.
SingleFlight == Cardinality(RefreshInFlight) <= 1

\* C2: of two domain calls that awaited a renewal at the same time, never
\* one has its renewal succeed and the other has it fail.
SharedOutcome ==
  \A i, j \in CallIds :
    Concurrent(i, j) => ~(calls[i].renew = "ok" /\ calls[j].renew = "failed")

\* C3: no request config starts more than one renewal, and only an unmarked
\* config starts one; a domain call starts at most one renewal and is
\* replayed at most once; when its renewal succeeded it was replayed exactly
\* once and, unless that replay is still in flight, the call has ended: a
\* 401 of the replay is handed to the caller as the call's error.
NoDoubleRetry ==
  /\ \A r \in Configs : r.tries <= 1 /\ (r.retry <=> r.tries = 1)
  /\ \A i \in CallIds :
       /\ calls[i].nrenew <= 1
       /\ calls[i].nreplay <= 1
       /\ calls[i].renew = "ok" =>
            /\ calls[i].nrenew = 1
            /\ calls[i].nreplay = 1
            /\ calls[i].st = "pending" => ReplayInFlight(i)
       /\ calls[i].st = "pending" /\ calls[i].renew \in {"none", "failed"} =>
            calls[i].nreplay = 0

\* C3 witness: a call whose renewal succeeded and whose replay was answered
\* 401 has ended with that 401 after one renewal and one replay.
NoDoubleRetryWitness ==
  \E i \in CallIds :
    /\ calls[i].renew = "ok"
    /\ calls[i].st = "e401"
    /\ calls[i].from = "domain"
    /\ calls[i].nrenew = 1
    /\ calls[i].nreplay = 1

\* C4: no refresh request is sent while handling the rejection of a refresh
\* request.
RenewalFailureTerminal ==
  \A r \in RefreshInFlight : \A fr \in Frames(r, "axi") : fr.req.ep # "refresh"

\* C6: once a renewal has succeeded, an authenticated session shows the
\* user of the access token the store holds.
AtomicCredentialUpdate ==
  isAuthenticated /\ store.at > 0 /\ superseded # {} => user = store.at

\* C7 (I1): an authenticated session has a stored access token that is
\* unexpired or comes with a stored refresh token.
AuthenticatedHasCredential ==
  isAuthenticated =>
    store.at # Absent /\ (TokenValid(store.at) \/ store.rt # Absent)

\* C8: no request is dispatched with an access token that a completed
\* renewal has replaced.
NoStaleDispatch == \A r \in reqs : ~r.stale

\* initAuth is awaiting its renewal.
InitAwaiting == {r \in reqs : Frames(r, "init") # {}}

\* C9: while initAuth awaits its renewal the session is never authenticated
\* with the claims of the expired token it found, and when the server
\* accepts that renewal the session is at once authenticated with the
\* claims of the new token, which is the one stored, and loading ends.
StartupResolution ==
  /\ [](\A r \in InitAwaiting : \A fr \in Frames(r, "init") :
          ~(isAuthenticated /\ user = fr.accessToken))
  /\ [][\A r \in InitAwaiting :
          (r \notin reqs' /\ nextTok' = nextTok + 1 /\ mounted') =>
            /\ isAuthenticated'
            /\ user' = nextTok
            /\ store'.at = nextTok
            /\ ~loading']_vars

\* C9 witness: startup found token 1 expired, its renewal (the only request
\* sent) was accepted and the session shows the claims of token 2.
StartupResolutionWitness ==
  /\ mounted /\ nsent = 1 /\ reqs = {} /\ ~loading
  /\ isAuthenticated /\ user = 2 /\ store.at = 2 /\ 1 \in superseded

\* Initialization has not finished.
InitPending == ~mounted \/ InitAwaiting # {}

\* A stored pair whose access token is unexpired or whose refresh token the
\* server accepts.
ValidCredentialStored ==
  /\ store.at > 0
  /\ store.rt # Absent
  /\ TokenValid(store.at) \/ store.rt \in validRT

\* C10: while a valid credential is stored and initialization has not
\* finished, a protected route does not render the redirect to /login.
NoFlashOfLogin ==
  loading /\ InitPending /\ ValidCredentialStored => ProtectedRoute # "/login"

\* The store holds a pair whose refresh token the server rejects, and a
\* renewal with it is under way: started by initAuth for an expired access
\* token, or by the api client for a domain call answered 401.
RejectedRenewalUnderWay ==
  \E r \in RefreshInFlight :
    /\ r.body \notin validRT
    /\ store.rt = r.body
    /\ Frames(r, "init") # {} \/ Frames(r, "api") # {}

SessionEnded == ~isAuthenticated /\ store = NoStore

\* A login request is in flight or held by the interceptor.
LoginUnderWay == \E r \in Configs : r.ep = "login"

\* C5: a renewal with a refresh token the server rejects, started by
\* initAuth or for a domain call, leads to an unauthenticated session and an
\* empty store.  Behaviours in which a login is under way then or later
\* (it may establish a new session) and behaviours that use up the request
\* bound of the model are left out, so that no counterexample rests on them.
TerminalRefreshFailure ==
  (RejectedRenewalUnderWay /\ ~LoginUnderWay)
    ~> (SessionEnded \/ LoginUnderWay \/ nsent >= MaxReq)

\* C11: when the server answers a login request with a pair (T, R) and the
\* user of T, and localStorage works, login returns true, the session is authenticated with that
\* user and the store holds exactly (T, R).
LoginSuccess ==
  [][\A r \in reqs :
       (storageAvailable /\ r.ep = "login" /\ Respond(r, "ok")) =>
         /\ returned'.login = "true"
         /\ isAuthenticated'
         /\ user' = nextTok
         /\ store' = [at |-> nextTok, rt |-> nextTok]
         /\ ~loading']_vars

\* C11 witness: the server has accepted a login and issued the pair (2, 2);
\* login has returned true, the session shows user 2 and the store holds
\* that pair.
LoginSuccessWitness ==
  /\ storageAvailable
  /\ returned.login = "true"
  /\ nextTok = 3
  /\ isAuthenticated /\ user = 2
  /\ store = [at |-> 2, rt |-> 2]

\* C12: when the server rejects a login request (a 401 or another failure
\* response) or the request fails, login returns false and records an error
\* message, the store, isAuthenticated and the user stay as they were, and
\* no request (no renewal, no logout) is sent.
FailedLoginLeavesSession ==
  [][\A r \in reqs : \A kind \in {"e401", "e400", "err"} :
       (r.ep = "login" /\ Respond(r, kind)) =>
         /\ returned'.login = "false"
         /\ error' # "null"
         /\ store' = store
         /\ isAuthenticated' = isAuthenticated
         /\ user' = user
         /\ nsent' = nsent]_vars

\* C13: the login request is never sent a second time: no login request in
\* flight is the redispatch of one that was answered before.
LoginSentOnce == \A r \in reqs : r.ep = "login" => ~r.retry

\* C14: in the step in which a logout() call ends, whatever the server
\* answered, and localStorage works, the store is emptied, the session is unauthenticated without
\* user, and the caller's promise resolves (with undefined): no error
\* reaches the caller.
LogoutSucceedsLocally ==
  [][(storageAvailable /\ returned'.nlogout = returned.nlogout + 1) =>
       /\ store' = NoStore
       /\ ~isAuthenticated'
       /\ user' = 0
       /\ returned'.logout = "undef"]_vars

\* C14 witness: the logout request, the only request sent, carried token 1,
\* which expired while the request was in flight, so that the server did
\* not accept it; logout has ended, store and session are cleared.
LogoutSucceedsLocallyWitness ==
  /\ returned.nlogout = 1 /\ returned.logout = "undef"
  /\ nsent = 1 /\ reqs = {} /\ 1 \in expired
  /\ store = NoStore /\ ~isAuthenticated /\ user = 0

\* C15: neither the call of register nor the handling of the answer to its
\* request, accepted or not, changes the store, isAuthenticated or the user
\* or sends another request; when the request is accepted register returns
\* true, else it returns false and records an error message: the server's
\* reason when the failure carries one, else the fallback text.
RegisterNoSession ==
  [][/\ UserRegister =>
          /\ store' = store
          /\ isAuthenticated' = isAuthenticated
          /\ user' = user
     /\ \A r \in reqs : \A kind \in Kinds :
          (r.ep = "register" /\ Respond(r, kind)) =>
            /\ store' = store
            /\ isAuthenticated' = isAuthenticated
            /\ user' = user
            /\ nsent' = nsent
            /\ returned'.register = (IF kind = "ok" THEN "true" ELSE "false")
            /\ kind = "e400" => error' = "server"
            /\ kind = "err" => error' = "Registration failed"]_vars

\* C15 witness: the server refused a registration made while the pair
\* (1, 1) was stored; register has returned false with the server's
\* reason, the pair is still stored and the session is unauthenticated.
RegisterNoSessionWitness ==
  /\ returned.register = "false"
  /\ error = "server"
  /\ store = [at |-> 1, rt |-> 1]
  /\ ~isAuthenticated /\ user = 0

\* The renewal request r was sent by the api client's response interceptor,
\* which awaits it.
SentByApiInterceptor(r) == r.k # <<>> /\ Head(r.k).f = "api"

\* C16: the api client's interceptors never write or remove a stored token:
\* neither the handling of the answer to a domain request nor the handling
\* of the answer to a renewal request the api interceptor awaits changes
\* the store.
PipelineLeavesStore ==
  [][\A r \in reqs : \A kind \in Kinds :
       ((r.client = "api" \/ SentByApiInterceptor(r)) /\ Respond(r, kind)) =>
         store' = store]_vars

\* Domain call i has ended: its caller holds a response or an error.
CallEnded(i) == calls[i].st \in Kinds

\* C17: a domain call whose renewal failed ends with the 401 error of its
\* own request, not with the error of the renewal request.
OriginalFailureDelivered ==
  \A i \in CallIds :
    CallEnded(i) /\ calls[i].renew = "failed" =>
      calls[i].st = "e401" /\ calls[i].from = "domain"

\* The requests in flight that redispatch domain call i.
Replays(i) == {q \in reqs : q.client = "api" /\ q.retry /\ CallOf(q.k) = i}

\* C18: when the renewal the api interceptor awaits for a domain call is
\* answered with a new access token, the call's request is redispatched
\* once, carrying that token; and whatever the server answers to the
\* redispatch is handed to the caller of the domain call, with no further
\* request sent.
ReplayAfterRenewal ==
  [][/\ \A r \in reqs :
          (SentByApiInterceptor(r) /\ Respond(r, "ok")) =>
            LET i == CallOf(r.k) IN
              /\ calls'[i].nreplay = 1
              /\ nsent' = nsent + 1
              /\ Cardinality(Replays(i)') = 1
              /\ \A q \in Replays(i)' : q.ep = "domain" /\ q.tok = nextTok
     /\ \A r \in reqs : \A kind \in Kinds :
          (r.client = "api" /\ r.retry /\ Respond(r, kind)) =>
            LET i == CallOf(r.k) IN
              /\ calls'[i].st = kind
              /\ calls'[i].from = "domain"
              /\ calls'[i].nreplay = 1
              /\ nsent' = nsent]_vars

\* C18 witness: call 1 was answered 401 with token 1, its renewal issued
\* token 2, and the call has ended with the response to its one
\* redispatch.
ReplayAfterRenewalWitness ==
  /\ calls[1].renew = "ok"
  /\ calls[1].st = "ok" /\ calls[1].from = "domain"
  /\ calls[1].nrenew = 1 /\ calls[1].nreplay = 1
  /\ store.at = 2 /\ 1 \in superseded

\* C19: when the request of a domain call fails with another status than
\* 401 or without response, no request is sent (no renewal, no replay), the
\* store and the session stay as they are, and the caller of the domain
\* call receives that failure.
OtherErrorsPassThrough ==
  [][\A r \in reqs : \A kind \in {"e400", "err"} :
       (r.client = "api" /\ Respond(r, kind)) =>
         LET i == CallOf(r.k) IN
           /\ calls'[i].st = kind
           /\ calls'[i].from = "domain"
           /\ calls'[i].nrenew = calls[i].nrenew
           /\ calls'[i].nreplay = calls[i].nreplay
           /\ reqs' = reqs \ {r}
           /\ nsent' = nsent
           /\ store' = store
           /\ isAuthenticated' = isAuthenticated
           /\ user' = user
           /\ nav' = nav]_vars

\* C19 witness: the first request of call 1 failed without response while
\* the session was authenticated from the pair (1, 1); the call has ended
\* with that failure, no renewal was started and nothing else was sent.
OtherErrorsPassThroughWitness ==
  /\ calls[1].st = "err" /\ calls[1].from = "domain"
  /\ calls[1].nrenew = 0 /\ calls[1].nreplay = 0
  /\ nsent = 1 /\ reqs = {}
  /\ isAuthenticated /\ user = 1 /\ store = [at |-> 1, rt |-> 1]

\* C20: from the moment the api client gives the session up (a 401 with no
\* refresh token stored, or a renewal that failed) until a login succeeds,
\* the store is empty and every domain call is dispatched without
\* Authorization header.
EndedSessionHasNoCredential ==
  /\ [](ended => store = NoStore)
  /\ [][\A i \in CallIds :
          (ended /\ DomainCall(i)) => \A q \in reqs' \ reqs : q.tok = Absent]_vars

\* C21: the session becomes authenticated only when AuthProvider mounts
\* (startup decode), when the renewal initAuth awaits is accepted, or when a
\* login request is accepted; it becomes unauthenticated only when a
\* logout() call ends (asked for by the user or forced by a failed renewal)
\* or when the document is replaced.
SessionTransitions ==
  [][/\ (~isAuthenticated /\ isAuthenticated') =>
          \/ ~mounted
          \/ \E r \in reqs : r.ep = "login" /\ Respond(r, "ok")
          \/ \E r \in InitAwaiting : Respond(r, "ok")
     /\ (isAuthenticated /\ ~isAuthenticated') =>
          \/ returned'.nlogout = returned.nlogout + 1
          \/ ~mounted']_vars

\* C22: where localStorage is unavailable, a login the server accepts ends
\* with login returning true and the session authenticated, and AuthProvider's
\* mount ends initialization (loading is false) without a session.
StorageUnavailableDegrades ==
  [][/\ \A r \in reqs :
          (~storageAvailable /\ r.ep = "login" /\ Respond(r, "ok")) =>
            returned'.login = "true" /\ isAuthenticated'
     /\ (~storageAvailable /\ Mount) => ~loading']_vars

\* The request r is the one refreshAccessToken awaits.
SentByRefreshAccessToken(r) == r.k # <<>> /\ Head(r.k).f = "rat"

\* The answer of kind kind to r is taken by the global response interceptor
\* before the code that awaits r sees it.
Intercepted(r, kind) == r.client = "axios" /\ r.icpt /\ kind = "e401" /\ ~r.retry

\* C23: at the end of the step in which refreshAccessToken's request fails
\* and refreshAccessToken returns false to the code that awaits it, the
\* store is empty and the session unauthenticated.
FailedRefreshHasCleared ==
  [][\A r \in reqs : \A kind \in {"e401", "e400", "err"} :
       (/\ storageAvailable
        /\ SentByRefreshAccessToken(r)
        /\ ~Intercepted(r, kind)
        /\ Respond(r, kind)) =>
         store' = NoStore /\ ~isAuthenticated']_vars

\* Initialization has finished: AuthProvider is mounted, initAuth awaits
\* nothing and loading is false.
InitResolved == mounted /\ InitAwaiting = {} /\ ~loading

\* C24: whatever the store held when the document started and whatever the
\* server answers, initialization finishes.  Behaviours that use up the
\* request bound of the model are left out.
InitAlwaysResolves == ~mounted ~> (InitResolved \/ nsent >= MaxReq)

\* C24 witness: initialization found an expired access token, the server
\* rejected the refresh token, and initialization has finished without a
\* session.
InitAlwaysResolvesWitness ==
  /\ InitResolved
  /\ nsent = 2 /\ nextTok = 2 /\ nlogin = 0 /\ nregister = 0
  /\ 1 \in expired /\ validRT = {}
  /\ store = [at |-> 1, rt |-> 1]
  /\ ~isAuthenticated

\* C25: when AuthProvider mounts with the access token or the refresh token
\* missing from the store, initialization ends unauthenticated and sends no
\* request; when it mounts with a stored pair whose access token decodes
\* and has not expired, it ends authenticated with the user of that token's
\* claims and sends no request.  The store is left as it is.
InitWithoutRequest ==
  [][(storageAvailable /\ Mount) =>
       /\ (store.at = Absent \/ store.rt = Absent) =>
            /\ ~isAuthenticated' /\ user' = 0
            /\ ~loading'
            /\ nsent' = nsent /\ reqs' = reqs
            /\ store' = store
       /\ (store.at > 0 /\ store.rt # Absent /\ ~TokenExpired(store.at)) =>
            /\ isAuthenticated' /\ user' = jwt_decode(store.at).sub
            /\ ~loading'
            /\ nsent' = nsent /\ reqs' = reqs
            /\ store' = store]_vars

\* C25 witness: the document started with the unexpired pair (1, 1);
\* AuthProvider has mounted, nothing was sent and the session shows user 1.
InitWithoutRequestWitness ==
  /\ mounted /\ nsent = 0 /\ ~loading
  /\ isAuthenticated /\ user = 1
  /\ store = [at |-> 1, rt |-> 1] /\ 1 \notin expired

\* A logout() call awaits the server.
LogoutUnderWay == \E r \in reqs : AwaitedByLogout(r)

LogoutSendsOnce ==
  [][\A r \in reqs : \A kind \in Kinds :
       (r.ep = "logout" /\ Respond(r, kind)) =>
         nsent' = nsent /\ reqs' = reqs \ {r}]_vars

\* C28: once a logout() call has ended in this document and the store is
\* empty and the session unauthenticated, they stay so in every step but
\* the one in which the server accepts a login: no answer to a renewal
\* request stores a token or sets isAuthenticated.
LogoutNotUndone ==
  [][(/\ storageAvailable
      /\ returned.nlogout > 0
      /\ SessionEnded
      /\ mounted'
      /\ ~\E r \in reqs : r.ep = "login" /\ Respond(r, "ok")) =>
       SessionEnded']_vars

\* C29: the answer to a request that a logout() call was awaiting when a
\* login was accepted changes neither the store nor the session: the pair
\* and the session of that login are not cleared by the late cleanup.
LoginSurvivesCleanup ==
  [][\A r \in reqs : \A kind \in Kinds :
       (storageAvailable /\ r.early /\ Respond(r, kind)) =>
         /\ store' = store
         /\ isAuthenticated' = isAuthenticated
         /\ user' = user]_vars

\* C30: from a store that held both tokens or neither, whenever AuthProvider
\* is mounted, no request is in flight and no navigation is pending, the
\* store holds both tokens or neither.
PairIntegrity ==
  (mounted /\ reqs = {} /\ ~nav) => (store.at = Absent <=> store.rt = Absent)

\* The renewal request r is awaited by refreshAccessToken() or by the api
\* client's response interceptor.
RenewalAwaited(r) ==
  r.ep = "refresh" /\ (SentByRefreshAccessToken(r) \/ SentByApiInterceptor(r))

\* The answer kind to renewal request r is a successful renewal: the server
\* issued an access token and, for refreshAccessToken(), which decodes it,
\* the token is well formed.
RenewalSucceeds(r, kind) ==
  kind = "ok" \/ (kind = "garbled" /\ SentByApiInterceptor(r))

\* C31: when a renewal succeeds, on either renewal path, the stored access
\* token becomes the one the server returned and the stored refresh token
\* stays as it was.
RenewalWritesAccessTokenOnly ==
  [][\A r \in reqs : \A kind \in {"ok", "garbled"} :
       (RenewalAwaited(r) /\ RenewalSucceeds(r, kind) /\ Respond(r, kind)) =>
         store' = [at |-> Answer(r, kind).at, rt |-> store.rt]]_vars

\* C31 witness: both paths have renewed in one behaviour.  initAuth found
\* token 1 expired and refreshAccessToken() stored token 2 and set its
\* user; call 1 was then answered 401 and the api interceptor stored
\* token 3.  The refresh token is still 1.
RenewalWritesAccessTokenOnlyWitness ==
  /\ isAuthenticated /\ user = 2
  /\ calls[1].renew = "ok"
  /\ store = [at |-> 3, rt |-> 1]
  /\ superseded = {1, 2}

\* C32: when the request of a domain call is answered 401 and no refresh
\* token is stored, no request is sent (no renewal, no replay) and the
\* caller of the domain call receives the 401 of its own request.
NoRefreshTokenPassesThrough ==
  [][\A r \in reqs :
       (r.client = "api" /\ store.rt = Absent /\ Respond(r, "e401")) =>
         LET i == CallOf(r.k) IN
           /\ calls'[i].st = "e401"
           /\ calls'[i].from = "domain"
           /\ calls'[i].nrenew = calls[i].nrenew
           /\ calls'[i].nreplay = calls[i].nreplay
           /\ reqs' = reqs \ {r}
           /\ nsent' = nsent]_vars

\* C32 witness: the renewal of call 1 failed and emptied the store; call 2,
\* sent before the page reloads, was answered 401 and has ended with that
\* error, with no renewal and no replay of its own.
NoRefreshTokenPassesThroughWitness ==
  /\ calls[1].renew = "failed"
  /\ calls[2].st = "e401" /\ calls[2].from = "domain"
  /\ calls[2].nrenew = 0 /\ calls[2].nreplay = 0
  /\ store.rt = Absent
  /\ nav

====
